---------------------------- MODULE Spec2Model ----------------------------
(***************************************************************************)
(* A model of the conlang generator of src/app.js: the phonology engine    *)
(* (word synthesis, phonological rules, romanization, loanword             *)
(* assimilation), Lexicon.generate, MorphoSyntax.generateSentence and the  *)
(* UIManager handlers that call them.                                      *)
(*                                                                         *)
(* Strings of the program are sequences of Unicode code points (naturals), *)
(* so that a character count is Len and String.fromCodePoint is            *)
(* arithmetic.  Texts that the program only compares or concatenates as    *)
(* wholes (meanings, field names, parts of speech) are TLA+ strings.       *)
(***************************************************************************)
EXTENDS Integers, Sequences, FiniteSets, TLC

(***************************************************************************)
(* Characters.                                                             *)
(***************************************************************************)
\* The code points of the characters the program names in its tables and
\* templates (ipaToRomanMap, soundMap, "C"/"V", the rule syntax ">" and "_").
CP ==
  [ p |-> 112, t |-> 116, k |-> 107, b |-> 98, d |-> 100, g |-> 103,
    m |-> 109, n |-> 110, s |-> 115, z |-> 122, h |-> 104, r |-> 114,
    j |-> 106, w |-> 119, a |-> 97, i |-> 105, u |-> 117, e |-> 101,
    o |-> 111, esh |-> 643, tesh |-> 679, dezh |-> 676, eng |-> 331,
    theta |-> 952, eth |-> 240,
    sup1 |-> 185, sup2 |-> 178, sup3 |-> 179, sup4 |-> 8308, sup5 |-> 8309,
    sup6 |-> 8310, sup7 |-> 8311, sup8 |-> 8312, sup9 |-> 8313,
    y |-> 121, c |-> 99, f |-> 102, l |-> 108, v |-> 118, q |-> 113,
    x |-> 120,
    C |-> 67, V |-> 86, N |-> 78,
    gt |-> 62, underscore |-> 95, space |-> 32, hyphen |-> 45,
    period |-> 46, slash |-> 47, lparen |-> 40 ]

\* JavaScript's null, as returned by generateWord (no code point is negative).
Null == << -1 >>

\* !x for a string-or-null x: null and the empty string are falsy.
Falsy(x) == x = Null \/ x = << >>

RECURSIVE Concat(_)
\* Array.prototype.join(""): the concatenation of a sequence of strings.
Concat(ss) == IF ss = << >> THEN << >> ELSE Head(ss) \o Concat(Tail(ss))

\* The set of characters of a string.
Chars(s) == { s[x] : x \in DOMAIN s }

\* Array.prototype.includes on a sequence.
Includes(seq, x) == \E q \in DOMAIN seq : seq[q] = x

(***************************************************************************)
(* Phonology.romanize                                                      *)
(***************************************************************************)
ipaToRomanMap ==
  (CP.p :> <<CP.p>>) @@ (CP.t :> <<CP.t>>) @@ (CP.k :> <<CP.k>>) @@
  (CP.b :> <<CP.b>>) @@ (CP.d :> <<CP.d>>) @@ (CP.g :> <<CP.g>>) @@
  (CP.m :> <<CP.m>>) @@ (CP.n :> <<CP.n>>) @@ (CP.s :> <<CP.s>>) @@
  (CP.z :> <<CP.z>>) @@ (CP.h :> <<CP.h>>) @@ (CP.r :> <<CP.r>>) @@
  (CP.j :> <<CP.y>>) @@ (CP.w :> <<CP.w>>) @@ (CP.a :> <<CP.a>>) @@
  (CP.i :> <<CP.i>>) @@ (CP.u :> <<CP.u>>) @@ (CP.e :> <<CP.e>>) @@
  (CP.o :> <<CP.o>>) @@ (CP.esh :> <<CP.s, CP.h>>) @@
  (CP.tesh :> <<CP.c, CP.h>>) @@ (CP.dezh :> <<CP.j>>) @@
  (CP.eng :> <<CP.n, CP.g>>) @@ (CP.theta :> <<CP.t, CP.h>>) @@
  (CP.eth :> <<CP.d, CP.h>>) @@
  (CP.sup1 :> <<CP.sup1>>) @@ (CP.sup2 :> <<CP.sup2>>) @@
  (CP.sup3 :> <<CP.sup3>>) @@ (CP.sup4 :> <<CP.sup4>>) @@
  (CP.sup5 :> <<CP.sup5>>) @@ (CP.sup6 :> <<CP.sup6>>) @@
  (CP.sup7 :> <<CP.sup7>>) @@ (CP.sup8 :> <<CP.sup8>>) @@
  (CP.sup9 :> <<CP.sup9>>)

RECURSIVE romanize(_)
romanize(ipaStr) ==
  IF ipaStr = << >> THEN << >>
  ELSE (IF Head(ipaStr) \in DOMAIN ipaToRomanMap
          THEN ipaToRomanMap[Head(ipaStr)]
          ELSE << Head(ipaStr) >>) \o romanize(Tail(ipaStr))

(***************************************************************************)
(* Phonology.applyPhonologicalRules                                        *)
(***************************************************************************)
RECURSIVE Split(_, _)
\* String.prototype.split(sep) for a one-character separator: the parts
\* between the separators, at least one part.
Split(s, sep) ==
  IF \A x \in DOMAIN s : s[x] # sep THEN << s >>
  ELSE LET at == CHOOSE x \in DOMAIN s :
                   s[x] = sep /\ \A y \in 1..(x - 1) : s[y] # sep
       IN << SubSeq(s, 1, at - 1) >> \o Split(SubSeq(s, at + 1, Len(s)), sep)

RECURSIVE Trim(_)
\* String.prototype.trim, for the blank.
Trim(s) ==
  IF s = << >> THEN s
  ELSE IF Head(s) = CP.space THEN Trim(Tail(s))
  ELSE IF s[Len(s)] = CP.space THEN Trim(SubSeq(s, 1, Len(s) - 1))
  ELSE s

\* The text "undefined": what String.prototype.replace writes for an
\* undefined replacement (a rule.from without ">").
Undefined == << CP.u, CP.n, CP.d, CP.e, CP.f, CP.i, CP.n, CP.e, CP.d >>

\* A regular expression is modelled as a sequence of atoms, each the set of
\* characters it matches: a literal is a singleton.
Literal(s) == [ x \in DOMAIN s |-> { s[x] } ]

\* s.replace("V", `[${vowels.join("")}]`): the FIRST "V" of s becomes a
\* character class of the vowels' characters, every other character a literal.
ExpandV(s, vowels) ==
  [ x \in DOMAIN s |->
      IF s[x] = CP.V /\ \A y \in 1..(x - 1) : s[y] # CP.V
        THEN Chars(Concat(vowels))
        ELSE { s[x] } ]

\* new RegExp(source) throws a SyntaxError.  Within the characters the model
\* draws rule texts from (letters, "V", "_", ">", blank and "("), the sources
\* that do not compile are those with an unterminated group "(".
RegExpThrows(source) == CP.lparen \in Chars(source)

\* The atoms match the characters of w from position at on.
MatchAt(w, at, atoms) ==
  /\ at >= 1
  /\ at + Len(atoms) - 1 <= Len(w)
  /\ \A x \in DOMAIN atoms : w[at + x - 1] \in atoms[x]

\* (?<=before)match(?=after) matches w at position at.
RegexMatches(w, at, before, match, after) ==
  /\ MatchAt(w, at, match)
  /\ before # << >> => MatchAt(w, at - Len(before), before)
  /\ after # << >> => MatchAt(w, at + Len(match), after)

RECURSIVE ReplaceFrom(_, _, _, _, _, _)
\* String.prototype.replace with a global regular expression, from position
\* at: leftmost matches, not overlapping; after an empty match the scan
\* advances by one character.
ReplaceFrom(w, at, before, match, after, replacement) ==
  IF at > Len(w) + 1 THEN << >>
  ELSE IF RegexMatches(w, at, before, match, after)
    THEN IF match = << >>
           THEN replacement
                  \o (IF at <= Len(w) THEN << w[at] >> ELSE << >>)
                  \o ReplaceFrom(w, at + 1, before, match, after, replacement)
           ELSE replacement
                  \o ReplaceFrom(w, at + Len(match), before, match, after,
                                 replacement)
    ELSE (IF at <= Len(w) THEN << w[at] >> ELSE << >>)
           \o ReplaceFrom(w, at + 1, before, match, after, replacement)

\* The body of the try block for one rule: the new word, or threw = TRUE when
\* new RegExp throws.
RuleTry(newWord, rule, vowels) ==
  LET parts       == Split(rule.from, CP.gt)
      match       == Trim(parts[1])
      replacement == IF Len(parts) >= 2 THEN Trim(parts[2]) ELSE Undefined
      context     == rule.to
      ctx         == Split(context, CP.underscore)
      hasCtx      == CP.underscore \in Chars(context)
      before      == IF hasCtx THEN ctx[1] ELSE << >>
      after       == IF hasCtx THEN ctx[2] ELSE << >>
  IN IF RegExpThrows(before \o match \o after)
       THEN [ threw |-> TRUE, word |-> newWord ]
       ELSE [ threw |-> FALSE,
              word  |-> ReplaceFrom(newWord, 1, ExpandV(before, vowels),
                                    Literal(match), ExpandV(after, vowels),
                                    replacement) ]

\* The body of the forEach callback without its try and catch.
RuleTryNoCatch(newWord, rule, vowels) == RuleTry(newWord, rule, vowels)

\* try { ... } catch (e) { console.error(...) }: a rule that throws leaves
\* newWord as it was and the loop goes on.
RuleTryCatch(newWord, rule, vowels) ==
  LET r == RuleTry(newWord, rule, vowels)
  IN IF r.threw THEN [ threw |-> FALSE, word |-> newWord ] ELSE r

RECURSIVE RulesFrom(_, _, _)
\* phonologicalRules.forEach over the accumulated newWord; an exception that
\* leaves the callback ends the loop and the call.
RulesFrom(acc, rules, vowels) ==
  IF rules = << >> \/ acc.threw THEN acc
  ELSE RulesFrom(RuleTryCatch(acc.word, Head(rules), vowels), Tail(rules),
                 vowels)

\* Phonology.applyPhonologicalRules(word): [threw, word].
applyPhonologicalRules(word, rules, vowels) ==
  RulesFrom([ threw |-> FALSE, word |-> word ], rules, vowels)

(***************************************************************************)
(* Phonology.generateWord                                                  *)
(***************************************************************************)
\* The elements of a sequence.
Range(seq) == { seq[q] : q \in DOMAIN seq }

RECURSIVE SynthesizedWords(_, _, _)
\* The loop over the characters of the chosen structure: a random consonant
\* for "C", a random vowel for "V", nothing for any other character.  The set
\* of the words the random draws can give.
SynthesizedWords(struct, consonants, vowels) ==
  IF struct = << >> THEN { << >> }
  ELSE LET rest == SynthesizedWords(Tail(struct), consonants, vowels)
       IN IF Head(struct) = CP.C
            THEN { c \o r : c \in Range(consonants), r \in rest }
          ELSE IF Head(struct) = CP.V
            THEN { v \o r : v \in Range(vowels), r \in rest }
          ELSE rest

\* Math.floor(Math.random() * tones.count) + 1, for a count that is a
\* natural number.
ToneChoices(count) == IF count >= 1 THEN 1..count ELSE { 1 }

\* String.fromCodePoint(0x2070 + tone)
ToneMarker(tone) == << 8304 + tone >>

\* The outcomes of one call of generateWord: the structure drawn, the word
\* before the rules, and the value returned (Null, or the word after the
\* rules and the tone marker); threw when an exception leaves the call.
generateWord(ph) ==
  IF \/ Len(ph.consonants) = 0
     \/ Len(ph.vowels) = 0
     \/ Len(ph.syllableStructures) = 0
    THEN { [ structure |-> Null, word |-> Null, threw |-> FALSE,
             finalWord |-> Null ] }
    ELSE UNION { UNION {
           LET ruled == applyPhonologicalRules(w, ph.phonologicalRules,
                                               ph.vowels)
           IN IF ruled.threw
                THEN { [ structure |-> struct, word |-> w, threw |-> TRUE,
                         finalWord |-> Null ] }
              ELSE IF ph.tones.enabled
                THEN { [ structure |-> struct, word |-> w, threw |-> FALSE,
                         finalWord |-> ruled.word \o ToneMarker(tone) ]
                       : tone \in ToneChoices(ph.tones.count) }
              ELSE { [ structure |-> struct, word |-> w, threw |-> FALSE,
                       finalWord |-> ruled.word ] }
           : w \in SynthesizedWords(struct, ph.consonants, ph.vowels) }
         : struct \in Range(ph.syllableStructures) }

(***************************************************************************)
(* Phonology.assimilate                                                    *)
(***************************************************************************)
\* The source loanwords the model draws from (the first ones of the list).
MaxLoanSources == 2

\* Phonology.sourceLoanwords, each with its text and its characters.
sourceLoanwordsAll ==
  << [ text |-> "computer", chars |-> <<CP.c, CP.o, CP.m, CP.p, CP.u, CP.t, CP.e, CP.r>> ],
     [ text |-> "internet", chars |-> <<CP.i, CP.n, CP.t, CP.e, CP.r, CP.n, CP.e, CP.t>> ],
     [ text |-> "phone", chars |-> <<CP.p, CP.h, CP.o, CP.n, CP.e>> ],
     [ text |-> "radio", chars |-> <<CP.r, CP.a, CP.d, CP.i, CP.o>> ],
     [ text |-> "television", chars |-> <<CP.t, CP.e, CP.l, CP.e, CP.v, CP.i, CP.s, CP.i, CP.o, CP.n>> ],
     [ text |-> "music", chars |-> <<CP.m, CP.u, CP.s, CP.i, CP.c>> ],
     [ text |-> "art", chars |-> <<CP.a, CP.r, CP.t>> ],
     [ text |-> "game", chars |-> <<CP.g, CP.a, CP.m, CP.e>> ],
     [ text |-> "food", chars |-> <<CP.f, CP.o, CP.o, CP.d>> ],
     [ text |-> "water", chars |-> <<CP.w, CP.a, CP.t, CP.e, CP.r>> ] >>

\* Phonology.sourceLoanwords, cut to its first MaxLoanSources words.
sourceLoanwords ==
  SubSeq(sourceLoanwordsAll, 1,
         IF Len(sourceLoanwordsAll) < MaxLoanSources
           THEN Len(sourceLoanwordsAll) ELSE MaxLoanSources)

RECURSIVE findClosestSound(_, _)
\* _findClosestSound: the first candidate the inventory holds, else the
\* inventory's first sound, else "".
findClosestSound(candidates, inventory) ==
  IF candidates = << >>
    THEN IF Len(inventory) > 0 THEN inventory[1] ELSE << >>
    ELSE IF Includes(inventory, Head(candidates)) THEN Head(candidates)
         ELSE findClosestSound(Tail(candidates), inventory)

\* The candidates of each source character, in priority order, and whether
\* the inventory searched is the consonants ("c"), the vowels ("v") or both.
soundCandidates ==
  (CP.p :> [ cand |-> <<CP.p, CP.b, CP.f>>, inv |-> "c" ]) @@
  (CP.b :> [ cand |-> <<CP.b, CP.p, CP.v>>, inv |-> "c" ]) @@
  (CP.t :> [ cand |-> <<CP.t, CP.d, CP.s>>, inv |-> "c" ]) @@
  (CP.d :> [ cand |-> <<CP.d, CP.t, CP.z>>, inv |-> "c" ]) @@
  (CP.k :> [ cand |-> <<CP.k, CP.g, CP.h, CP.x>>, inv |-> "c" ]) @@
  (CP.c :> [ cand |-> <<CP.k, CP.g, CP.s>>, inv |-> "c" ]) @@
  (CP.g :> [ cand |-> <<CP.g, CP.k, CP.dezh>>, inv |-> "c" ]) @@
  (CP.f :> [ cand |-> <<CP.f, CP.p, CP.v>>, inv |-> "c" ]) @@
  (CP.v :> [ cand |-> <<CP.v, CP.b, CP.f>>, inv |-> "c" ]) @@
  (CP.s :> [ cand |-> <<CP.s, CP.z, CP.t, CP.esh>>, inv |-> "c" ]) @@
  (CP.z :> [ cand |-> <<CP.z, CP.s, CP.d>>, inv |-> "c" ]) @@
  (CP.m :> [ cand |-> <<CP.m, CP.n>>, inv |-> "c" ]) @@
  (CP.n :> [ cand |-> <<CP.n, CP.m, CP.eng>>, inv |-> "c" ]) @@
  (CP.l :> [ cand |-> <<CP.l, CP.r, CP.j>>, inv |-> "c" ]) @@
  (CP.r :> [ cand |-> <<CP.r, CP.l, CP.d>>, inv |-> "c" ]) @@
  (CP.h :> [ cand |-> <<CP.h>>, inv |-> "c" ]) @@
  (CP.j :> [ cand |-> <<CP.dezh, CP.g, CP.z>>, inv |-> "c" ]) @@
  (CP.y :> [ cand |-> <<CP.j, CP.i>>, inv |-> "cv" ]) @@
  (CP.w :> [ cand |-> <<CP.w, CP.u>>, inv |-> "cv" ]) @@
  (CP.q :> [ cand |-> <<CP.k, CP.g>>, inv |-> "c" ]) @@
  (CP.x :> [ cand |-> <<CP.s, CP.z>>, inv |-> "c" ]) @@
  (CP.a :> [ cand |-> <<CP.a, CP.e, CP.o>>, inv |-> "v" ]) @@
  (CP.e :> [ cand |-> <<CP.e, CP.i, CP.a>>, inv |-> "v" ]) @@
  (CP.i :> [ cand |-> <<CP.i, CP.e, CP.u>>, inv |-> "v" ]) @@
  (CP.o :> [ cand |-> <<CP.o, CP.u, CP.a>>, inv |-> "v" ]) @@
  (CP.u :> [ cand |-> <<CP.u, CP.o, CP.i>>, inv |-> "v" ])

\* soundMap[char] || "": the sound a source character is mapped to.
soundMap(char, consonants, vowels) ==
  IF char \notin DOMAIN soundCandidates THEN << >>
  ELSE LET e == soundCandidates[char]
       IN findClosestSound(
            [ q \in DOMAIN e.cand |-> << e.cand[q] >> ],
            IF e.inv = "c" THEN consonants
            ELSE IF e.inv = "v" THEN vowels
            ELSE consonants \o vowels)

\* Phonology.assimilate(word), for a lower-case source word.
assimilate(srcWord, consonants, vowels) ==
  IF Len(consonants) = 0 \/ Len(vowels) = 0 THEN srcWord
  ELSE Concat([ q \in DOMAIN srcWord |->
                  soundMap(srcWord[q], consonants, vowels) ])

(***************************************************************************)
(* Lexicon: the static tables                                              *)
(***************************************************************************)
\* The number of words of each semantic field the model draws meanings from
\* (the first words of each list).
MaxFieldWords == 2

\* Lexicon.semanticFieldMap.  The field names are Japanese in the source;
\* they are written here in Latin transliteration.
semanticFieldMap ==
  [ shizen |-> "nature", doubutsu |-> "animals", kanjou |-> "emotions",
    koudou |-> "actions", dougu |-> "tools", shakai |-> "society",
    shikou |-> "concepts", karada |-> "body", tabemono |-> "food",
    basho |-> "places" ]

\* Lexicon.SemanticDictionary, in full.
SemanticDictionaryAll ==
  [
    nature |->
      << "sun", "moon", "star", "sky", "earth", "sea", "river",
         "mountain", "tree", "flower", "rain", "wind", "snow", "fire",
         "water", "stone", "cloud", "forest", "desert", "island",
         "valley", "lightning", "sand" >>,
    animals |->
      << "dog", "cat", "bird", "fish", "horse", "bear", "wolf", "lion",
         "tiger", "snake", "insect", "spider", "eagle", "mouse", "cow",
         "sheep", "monkey", "deer", "fox", "rabbit", "bee", "butterfly" >>,
    emotions |->
      << "love", "hate", "joy", "sadness", "anger", "fear", "surprise",
         "hope", "pride", "shame", "calm", "anxiety", "courage",
         "desire", "trust", "pity", "envy", "gratitude", "guilt",
         "curiosity" >>,
    actions |->
      << "go", "come", "eat", "drink", "sleep", "see", "hear", "speak",
         "run", "walk", "give", "take", "make", "do", "know", "think",
         "love", "work", "play", "sing", "die", "live", "fight", "read",
         "write" >>,
    tools |->
      << "knife", "hammer", "axe", "rope", "wheel", "boat", "net",
         "needle", "sword", "shield", "bow", "arrow", "pen", "book",
         "cup", "pot", "key", "clock", "mirror", "lamp", "plow", "cart",
         "bridge", "road" >>,
    society |->
      << "person", "man", "woman", "child", "family", "king", "queen",
         "law", "war", "peace", "city", "house", "village", "god",
         "money", "art", "music", "story", "name", "word", "language",
         "friend", "enemy", "chief" >>,
    concepts |->
      << "time", "space", "life", "death", "good", "evil", "truth",
         "lie", "beauty", "power", "knowledge", "freedom", "justice",
         "luck", "dream", "soul", "mind", "idea", "change", "order",
         "chaos", "number" >>,
    body |->
      << "head", "face", "eye", "ear", "nose", "mouth", "hand", "foot",
         "heart", "blood", "bone", "skin", "hair", "voice", "leg", "arm",
         "finger", "tooth" >>,
    food |->
      << "bread", "meat", "fruit", "seed", "salt", "honey", "milk",
         "egg", "root", "leaf", "berry", "grain", "wine", "oil",
         "cheese", "herb" >>,
    places |->
      << "home", "market", "temple", "field", "cave", "port", "castle",
         "tower", "wall", "gate", "tomb", "throne", "garden", "lake",
         "shore" >> ]

\* Lexicon.SemanticDictionary[fieldKey], cut to its first MaxFieldWords words.
SemanticDictionary(fieldKey) ==
  LET all == SemanticDictionaryAll[fieldKey]
  IN SubSeq(all, 1, IF Len(all) < MaxFieldWords THEN Len(all)
                     ELSE MaxFieldWords)

\* const pos = ["noun", "verb", "adjective"]
pos == << "noun", "verb", "adjective" >>

\* The attempts of the do-while loop of Lexicon.generate.
MaxAttempts == 10

(***************************************************************************)
(* The state                                                               *)
(***************************************************************************)
VARIABLES
  phonology,          \* languageState.phonology
  lexicon,            \* languageState.lexicon
  morphoSyntax,       \* languageState.morphoSyntax
  dictionary,         \* languageState.generated.dictionary
  grammar,            \* languageState.generated.grammar
  pc,                 \* the position of the handler that is running
  \* the locals of Lexicon.generate
  meaningsToGenerate, usedMeanings, fieldIndex,
  meaningIdx,         \* the position of the for-of loop over the meanings
  attempts, ipa, roman, generatedRomans, newDictionary,
  structure, word,    \* the locals of the last generateWord call
  derivedWords,
  morphemeIdx,        \* the position of the forEach over the morphemes
  wordIdx,            \* the position of the forEach over newDictionary
  loanI,              \* the i of the loanword loop
  \* the locals of updateExampleSentences and generateSentence
  sentenceI, subject, object, verb, subjectPhrase, grammarLocals,
  randomTenseKey, components, sentence,
  events              \* the UI events handled since the page was loaded

configVars == << phonology, lexicon, morphoSyntax, grammar >>
selectVars == << meaningsToGenerate, usedMeanings, fieldIndex >>
synthVars  == << meaningIdx, attempts, ipa, roman, generatedRomans,
                 newDictionary, structure, word >>
deriveVars == << derivedWords, morphemeIdx, wordIdx >>
genVars    == << selectVars, synthVars, deriveVars, loanI >>
callVars   == << subject, object, verb, subjectPhrase, grammarLocals,
                 randomTenseKey, components, sentence >>
sentVars   == << sentenceI, callVars >>
vars       == << configVars, dictionary, pc, genVars, sentVars, events >>

\* A local that has not been assigned (JavaScript's undefined).
Unset == << -2 >>

\* languageState.generated.grammar as the module creates it.
InitialGrammar ==
  [ subjectMarker |-> << CP.g, CP.a >>,
    objectMarker  |-> << CP.w, CP.o >>,
    pluralMarker  |-> << CP.t >>,
    tenses        |-> << [ key |-> "past",    marker |-> << CP.t, CP.a >> ],
                         [ key |-> "present", marker |-> << CP.r, CP.u >> ],
                         [ key |-> "future",  marker |-> << CP.l, CP.u >> ] >> ]

(***************************************************************************)
(* Lexicon.generate                                                        *)
(***************************************************************************)
\* The locals of Lexicon.generate as the call begins.
GenerateLocalsInit ==
  /\ meaningsToGenerate' = << >>
  /\ usedMeanings' = { }
  /\ fieldIndex' = 0
  /\ meaningIdx' = 0
  /\ attempts' = 0
  /\ ipa' = Unset
  /\ roman' = Unset
  /\ generatedRomans' = { }
  /\ newDictionary' = << >>
  /\ structure' = Unset
  /\ word' = Unset
  /\ derivedWords' = << >>
  /\ morphemeIdx' = 0
  /\ wordIdx' = 0
  /\ loanI' = 0

\* Where the for-of loop over the meanings goes for its k-th meaning: into
\* the do-while loop, or past the loop to the derivation pass (which has
\* nothing to do without morphemes or without words).
ForMeaningPc(k, meanings, morphemes, newDict) ==
  IF k <= Len(meanings) THEN "attempt"
  ELSE IF Len(morphemes) > 0 /\ Len(newDict) > 0 THEN "derive"
  ELSE "assemble"

\* The loop condition of line 265 with <= for <.
SelectPcInclusive(meanings, fIndex, rootCount) ==
  IF fIndex > rootCount * 2 /\ Len(meanings) < rootCount THEN "synth"
  ELSE IF Len(meanings) <= rootCount THEN "select"
  ELSE "synth"

\* Where the while loop of the meaning selection goes: the loop condition
\* (line 265), after the break of the previous iteration (line 283).
SelectPc(meanings, fIndex, rootCount) ==
  IF fIndex > rootCount * 2 /\ Len(meanings) < rootCount THEN "synth"
  ELSE IF Len(meanings) < rootCount THEN "select"
  ELSE "synth"

\* The meanings one visit of a field can add: a random unused word of a
\* recognized field, the field's own text for any other field.  The empty
\* set when the visit adds nothing.
FieldOffers(fieldName, used) ==
  IF fieldName \in DOMAIN semanticFieldMap
    THEN Range(SemanticDictionary(semanticFieldMap[fieldName])) \ used
    ELSE { fieldName } \ used

\* One iteration of the while loop (lines 265-284).
SelectMeaning ==
  /\ pc = "select"
  /\ LET fields    == lexicon.semanticFields
         fieldName == fields[(fieldIndex % Len(fields)) + 1]
         offers    == FieldOffers(fieldName, usedMeanings)
     IN /\ IF offers = { }
             THEN UNCHANGED << meaningsToGenerate, usedMeanings >>
             ELSE \E chosenMeaning \in offers :
                    /\ meaningsToGenerate' =
                         Append(meaningsToGenerate, chosenMeaning)
                    /\ usedMeanings' = usedMeanings \cup { chosenMeaning }
        /\ fieldIndex' = fieldIndex + 1
        /\ pc' = SelectPc(meaningsToGenerate', fieldIndex', lexicon.rootCount)
  /\ UNCHANGED << events, configVars, dictionary, synthVars, deriveVars, loanI,
                  sentVars >>

\* The for-of loop over meaningsToGenerate starts (line 286).
SynthStart ==
  /\ pc = "synth"
  /\ meaningIdx' = 1
  /\ pc' = ForMeaningPc(1, meaningsToGenerate,
                        morphoSyntax.derivationalMorphemes, newDictionary)
  /\ attempts' = 0
  /\ ipa' = Unset
  /\ roman' = Unset
  /\ morphemeIdx' = 1
  /\ wordIdx' = 1
  /\ UNCHANGED << events, configVars, dictionary, selectVars, generatedRomans,
                  newDictionary, structure, word, derivedWords, loanI,
                  sentVars >>

\* The do-while loop of lines 289-294 with <= for < in its condition.
AttemptOnceMore ==
  /\ pc = "attempt"
  /\ \E out \in generateWord(phonology) :
       /\ structure' = out.structure
       /\ word' = out.word
       /\ IF out.threw
            THEN /\ pc' = "aborted"
                 /\ UNCHANGED << ipa, roman, attempts >>
          ELSE IF Falsy(out.finalWord)
            THEN /\ ipa' = out.finalWord
                 /\ pc' = "insert"
                 /\ UNCHANGED << roman, attempts >>
          ELSE /\ ipa' = out.finalWord
               /\ roman' = romanize(out.finalWord)
               /\ attempts' = attempts + 1
               /\ pc' = IF roman' \in generatedRomans /\ attempts' <= MaxAttempts
                          THEN "attempt" ELSE "insert"
  /\ UNCHANGED << events, configVars, dictionary, selectVars, meaningIdx,
                  generatedRomans, newDictionary, deriveVars, loanI,
                  sentVars >>

\* One iteration of the do-while loop (lines 289-294).  An exception that
\* leaves generateWord leaves Lexicon.generate and its handler too.
Attempt ==
  /\ pc = "attempt"
  /\ \E out \in generateWord(phonology) :
       /\ structure' = out.structure
       /\ word' = out.word
       /\ IF out.threw
            THEN /\ pc' = "aborted"
                 /\ UNCHANGED << ipa, roman, attempts >>
          ELSE IF Falsy(out.finalWord)
            THEN /\ ipa' = out.finalWord
                 /\ pc' = "insert"
                 /\ UNCHANGED << roman, attempts >>
          ELSE /\ ipa' = out.finalWord
               /\ roman' = romanize(out.finalWord)
               /\ attempts' = attempts + 1
               /\ pc' = IF roman' \in generatedRomans /\ attempts' < MaxAttempts
                          THEN "attempt" ELSE "insert"
  /\ UNCHANGED << events, configVars, dictionary, selectVars, meaningIdx,
                  generatedRomans, newDictionary, deriveVars, loanI,
                  sentVars >>

\* The genders a noun is given one of (lines 304-308); none when grammatical
\* gender is off.
Genders(grammaticalGender) ==
  IF grammaticalGender = "none" THEN << >>
  ELSE IF grammaticalGender = "mf" THEN << "masculine", "feminine" >>
  ELSE << "masculine", "feminine", "neuter" >>

\* `/${ipa}/`
Slashed(s) == << CP.slash >> \o s \o << CP.slash >>

\* The rest of the for-of body (lines 296-310): the meaning is dropped, or a
\* word with a random part of speech (and gender) is pushed.
Insert ==
  /\ pc = "insert"
  /\ IF Falsy(ipa) \/ roman \in generatedRomans
       THEN UNCHANGED << generatedRomans, newDictionary >>
       ELSE /\ generatedRomans' = generatedRomans \cup { roman }
            /\ \E wordPos \in Range(pos) :
                 \E gender \in
                     (IF wordPos = "noun"
                         /\ morphoSyntax.grammaticalGender # "none"
                        THEN Range(Genders(morphoSyntax.grammaticalGender))
                        ELSE { "null" }) :
                   newDictionary' =
                     Append(newDictionary,
                            [ ipa |-> Slashed(ipa), roman |-> roman,
                              pos |-> wordPos,
                              meaning |-> meaningsToGenerate[meaningIdx],
                              gender |-> gender ])
  /\ meaningIdx' = meaningIdx + 1
  /\ pc' = ForMeaningPc(meaningIdx + 1, meaningsToGenerate,
                        morphoSyntax.derivationalMorphemes, newDictionary')
  /\ attempts' = 0
  /\ ipa' = Unset
  /\ roman' = Unset
  /\ UNCHANGED << events, configVars, dictionary, selectVars, structure, word,
                  deriveVars, loanI, sentVars >>

(***************************************************************************)
(* MorphoSyntax.applyDerivation and the derivation pass                    *)
(***************************************************************************)
\* word.ipa.slice(1, -1)
BaseIpa(entry) == SubSeq(entry.ipa, 2, Len(entry.ipa) - 1)

\* applyDerivation with the gender of the word carried into the entry.
applyDerivationWithGender(entry, morpheme) ==
  LET baseIpa == BaseIpa(entry)
      prefix  == morpheme.type = "prefix"
      newIpa   == IF prefix THEN morpheme.form \o baseIpa
                  ELSE baseIpa \o morpheme.form
      newRoman == IF prefix THEN romanize(morpheme.form) \o entry.roman
                  ELSE entry.roman \o romanize(morpheme.form)
  IN [ ipa |-> Slashed(newIpa), roman |-> newRoman, pos |-> morpheme.func,
       meaning |-> entry.meaning \o " (" \o morpheme.func \o ")",
       gender |-> entry.gender ]

\* MorphoSyntax.applyDerivation(word, morpheme): the entry has no gender.
applyDerivation(entry, morpheme) ==
  LET baseIpa == BaseIpa(entry)
      prefix  == morpheme.type = "prefix"
      newIpa   == IF prefix THEN morpheme.form \o baseIpa
                  ELSE baseIpa \o morpheme.form
      newRoman == IF prefix THEN romanize(morpheme.form) \o entry.roman
                  ELSE entry.roman \o romanize(morpheme.form)
  IN [ ipa |-> Slashed(newIpa), roman |-> newRoman, pos |-> morpheme.func,
       meaning |-> entry.meaning \o " (" \o morpheme.func \o ")" ]

\* The positions of baseIpa that hold a vowel of the inventory (line 323).
VowelIndexes(baseIpa, vowels) ==
  { q \in DOMAIN baseIpa : Includes(vowels, << baseIpa[q] >>) }

\* The irregular entries of a word for a morpheme (lines 319-336): the last
\* vowel replaced by a random vowel; none without vowels.
IrregularForms(entry, morpheme, vowels) ==
  LET baseIpa == BaseIpa(entry)
      at      == VowelIndexes(baseIpa, vowels)
  IN IF Len(vowels) = 0 \/ at = { } THEN { }
     ELSE LET lastVowelIndex == CHOOSE q \in at : \A r \in at : r <= q
          IN { LET newIpa == SubSeq(baseIpa, 1, lastVowelIndex - 1)
                               \o randomVowel
                               \o SubSeq(baseIpa, lastVowelIndex + 1,
                                         Len(baseIpa))
               IN [ ipa |-> Slashed(newIpa), roman |-> romanize(newIpa),
                    pos |-> morpheme.func,
                    meaning |-> entry.meaning \o " (irregular "
                                  \o morpheme.func \o ")",
                    gender |-> entry.gender ]
               : randomVowel \in Range(vowels) }

\* What one (morpheme, word) visit pushes onto derivedWords (lines 317-341):
\* nothing, an irregular entry or the regular one.  irregularityRate is held
\* in percent: Math.random() < rate can be true unless the rate is 0 and can
\* be false unless it is 100.
DerivePushes(entry, morpheme, vowels, irregularityRate) ==
  { << >> }
  \cup (IF irregularityRate > 0
          THEN IF IrregularForms(entry, morpheme, vowels) = { }
                 THEN { << >> }
                 ELSE { << e >> : e \in IrregularForms(entry, morpheme, vowels) }
          ELSE { })
  \cup (IF irregularityRate < 100
          THEN { << applyDerivation(entry, morpheme) >> }
          ELSE { })

\* One visit of the inner forEach (lines 316-342), morphemes outermost.
DeriveStep ==
  /\ pc = "derive"
  /\ LET morphemes == morphoSyntax.derivationalMorphemes
     IN /\ \E push \in DerivePushes(newDictionary[wordIdx],
                                     morphemes[morphemeIdx], phonology.vowels,
                                     morphoSyntax.irregularityRate) :
             derivedWords' = derivedWords \o push
        /\ IF wordIdx < Len(newDictionary)
             THEN /\ wordIdx' = wordIdx + 1
                  /\ UNCHANGED << morphemeIdx, pc >>
           ELSE IF morphemeIdx < Len(morphemes)
             THEN /\ wordIdx' = 1
                  /\ morphemeIdx' = morphemeIdx + 1
                  /\ UNCHANGED pc
           ELSE /\ pc' = "assemble"
                /\ UNCHANGED << wordIdx, morphemeIdx >>
  /\ UNCHANGED << events, configVars, dictionary, selectVars, synthVars, loanI,
                  sentVars >>

(***************************************************************************)
(* The new dictionary and the loanword pass                                *)
(***************************************************************************)
\* Math.max(1, Math.floor(rootCount * 0.05)), for a natural rootCount.
loanwordCount(rootCount) ==
  IF rootCount \div 20 > 1 THEN rootCount \div 20 ELSE 1

\* Line 345 with the two spreads exchanged.
AssembledDerivedFirst(newDict, derived) == derived \o newDict

\* Line 345 with the entries of the dictionary so far kept in front.
AssembledOntoPrevious(newDict, derived) == dictionary \o newDict \o derived

\* [...newDictionary, ...derivedWords]
Assembled(newDict, derived) == newDict \o derived

\* Line 345, and the test of line 347.
Assemble ==
  /\ pc = "assemble"
  /\ dictionary' = Assembled(newDictionary, derivedWords)
  /\ loanI' = 0
  /\ pc' = IF lexicon.loanwords.enabled THEN "loan" ELSE "generated"
  /\ UNCHANGED << events, configVars, selectVars, synthVars, deriveVars,
                  sentVars >>

\* dictionary.push(entry)
Pushed(dict, entry) == Append(dict, entry)

\* One iteration of the loanword loop (lines 349-363).
LoanStep ==
  /\ pc = "loan"
  /\ \E q \in DOMAIN sourceLoanwords :
       LET sourceWord       == sourceLoanwords[q]
           assimilatedIpa   == assimilate(sourceWord.chars,
                                          phonology.consonants,
                                          phonology.vowels)
           assimilatedRoman == romanize(assimilatedIpa)
       IN IF /\ assimilatedRoman # << >>
             /\ ~ \E d \in DOMAIN dictionary :
                    dictionary[d].roman = assimilatedRoman
            THEN dictionary' =
                   Pushed(dictionary,
                          [ ipa |-> Slashed(assimilatedIpa),
                            roman |-> assimilatedRoman, pos |-> "noun",
                            meaning |-> sourceWord.text \o " (loanword)",
                            gender |-> "null" ])
            ELSE UNCHANGED dictionary
  /\ loanI' = loanI + 1
  /\ pc' = IF loanI + 1 < loanwordCount(lexicon.rootCount) THEN "loan"
           ELSE "generated"
  /\ UNCHANGED << events, configVars, selectVars, synthVars, deriveVars,
                  sentVars >>

(***************************************************************************)
(* MorphoSyntax.generateSentence, called by updateExampleSentences         *)
(***************************************************************************)
\* The sentences updateExampleSentences asks for.
ExampleSentences == 3

\* The value returned for a dictionary without two nouns and a verb: the
\* code points of the source's fixed Japanese text.
Sentinel ==
  [ surface |-> << 36766, 26360, 12395, 21336, 35486, 12364, 19981, 36275,
                   12375, 12390, 12356, 12414, 12377, 12290 >>,
    gloss   |-> "" ]

IsNoun(w) == w.pos = "noun"
IsVerb(w) == w.pos = "verb"
IsAdjective(w) == w.pos = "adjective"

\* dictionary.filter(...)
Nouns(dict) == SelectSeq(dict, IsNoun)
Verbs(dict) == SelectSeq(dict, IsVerb)
Adjectives(dict) == SelectSeq(dict, IsAdjective)

\* The test of line 396 with its first bound one too small.
InsufficientOffByOne(dict) == Len(Nouns(dict)) < 1 \/ Len(Verbs(dict)) < 1

\* The test of line 396.
Insufficient(dict) == Len(Nouns(dict)) < 2 \/ Len(Verbs(dict)) < 1

\* subject.gender as a condition: a missing or null gender is falsy.
HasGender(entry) == "gender" \in DOMAIN entry /\ entry.gender # "null"

\* The for loop of updateExampleSentences after a sentence: the next
\* sentence, or the handler is done.
AfterSentencePc(i) == IF i < ExampleSentences THEN "display" ELSE "idle"

\* The value a generateSentence call returns for an insufficient dictionary.
GuardValue == Sentinel

\* The locals of a generateSentence call as it begins.
CallLocalsInit ==
  /\ subject' = Unset
  /\ object' = Unset
  /\ verb' = Unset
  /\ subjectPhrase' = Unset
  /\ grammarLocals' = Unset
  /\ randomTenseKey' = Unset
  /\ components' = Unset
  /\ sentence' = Unset

\* Lines 389-399: the sentinel is returned, or the subject and the object
\* are drawn.
SentenceGuard ==
  /\ pc = "display"
  /\ IF Insufficient(dictionary)
       THEN /\ subject' = Unset
            /\ object' = Unset
            /\ sentence' = GuardValue
            /\ pc' = "returned"
       ELSE /\ \E s \in DOMAIN Nouns(dictionary) :
                 subject' = Nouns(dictionary)[s]
            /\ \E o \in DOMAIN Nouns(dictionary) :
                 object' = Nouns(dictionary)[o]
            /\ sentence' = Unset
            /\ pc' = "redraw"
  /\ UNCHANGED sentenceI
  /\ verb' = Unset
  /\ subjectPhrase' = Unset
  /\ grammarLocals' = Unset
  /\ randomTenseKey' = Unset
  /\ components' = Unset
  /\ UNCHANGED << events, configVars, dictionary, genVars >>

\* The while loop of lines 400-402 taking the rejected draw's first noun out
\* of the dictionary.
RedrawRemoving ==
  /\ pc = "redraw"
  /\ object.roman = subject.roman
  /\ \E o \in DOMAIN Nouns(dictionary) : object' = Nouns(dictionary)[o]
  /\ dictionary' = Tail(dictionary)
  /\ UNCHANGED << events, configVars, pc, genVars, sentenceI, subject, verb,
                  subjectPhrase, grammarLocals, randomTenseKey, components,
                  sentence >>

\* One iteration of the while loop of lines 400-402.
Redraw ==
  /\ pc = "redraw"
  /\ object.roman = subject.roman
  /\ \E o \in DOMAIN Nouns(dictionary) : object' = Nouns(dictionary)[o]
  /\ UNCHANGED << events, configVars, dictionary, pc, genVars, sentenceI, subject,
                  verb, subjectPhrase, grammarLocals, randomTenseKey,
                  components, sentence >>

\* The agreement suffix of lines 412-418.
AgreementSuffix(subj, genderAgreement, grammaticalGender) ==
  IF genderAgreement /\ grammaticalGender # "none" /\ HasGender(subj)
    THEN IF subj.gender = "masculine" THEN << CP.hyphen, CP.o >>
         ELSE IF subj.gender = "feminine" THEN << CP.hyphen, CP.a >>
         ELSE IF subj.gender = "neuter" THEN << CP.hyphen, CP.e >>
         ELSE << >>
    ELSE << >>

\* The subject phrases and their glosses (lines 405-426): the bare subject,
\* or, when there are adjectives and Math.random() > 0.5, the subject with a
\* random adjective.
SubjectPhrases(subj, dict, ms) ==
  { [ phrase |-> subj.roman, human |-> subj.meaning ] }
  \cup { LET adjective     == Adjectives(dict)[q]
             adjectiveForm ==
               adjective.roman
                 \o AgreementSuffix(subj, ms.genderAgreement,
                                    ms.grammaticalGender)
         IN [ phrase |-> IF ms.adjectiveOrder = "AN"
                           THEN adjectiveForm \o << CP.space >> \o subj.roman
                           ELSE subj.roman \o << CP.space >> \o adjectiveForm,
              human  |-> adjective.meaning \o " " \o subj.meaning ]
         : q \in DOMAIN Adjectives(dict) }

\* The switch of lines 432-445 for one constituent.
CaseMarked(form, marker, caseMarking) ==
  IF caseMarking = "suffix" THEN form \o << CP.hyphen >> \o marker
  ELSE IF caseMarking = "prefix" THEN marker \o << CP.hyphen >> \o form
  ELSE IF caseMarking = "postposition" THEN form \o << CP.space >> \o marker
  ELSE form

RECURSIVE JoinBlank(_)
\* Array.prototype.join(" ")
JoinBlank(parts) ==
  IF parts = << >> THEN << >>
  ELSE IF Len(parts) = 1 THEN parts[1]
  ELSE parts[1] \o << CP.space >> \o JoinBlank(Tail(parts))

\* Line 453 with the components always in the order S, O, V.
OrderedFixed(wordOrder, comps) == JoinBlank(<< comps.S, comps.O, comps.V >>)

\* wordOrder.split("").map((c) => components[c]).join(" "): a character that
\* names no component gives an empty part.
Ordered(wordOrder, comps) ==
  JoinBlank([ q \in DOMAIN wordOrder |->
                IF wordOrder[q] = "S" THEN comps.S
                ELSE IF wordOrder[q] = "O" THEN comps.O
                ELSE IF wordOrder[q] = "V" THEN comps.V
                ELSE << >> ])

\* Lines 403-455, once the object differs from the subject.
Compose ==
  /\ pc = "redraw"
  /\ object.roman # subject.roman
  /\ \E v \in DOMAIN Verbs(dictionary) :
     \E sp \in SubjectPhrases(subject, dictionary, morphoSyntax) :
     \E t \in DOMAIN grammar.tenses :
       LET theVerb     == Verbs(dictionary)[v]
           tenseMarker == grammar.tenses[t].marker
           s_final == CaseMarked(sp.phrase, grammar.subjectMarker,
                                 morphoSyntax.caseMarking)
           o_final == CaseMarked(object.roman, grammar.objectMarker,
                                 morphoSyntax.caseMarking)
           v_final == theVerb.roman \o << CP.hyphen >> \o tenseMarker
           comps   == [ S |-> s_final, O |-> o_final, V |-> v_final ]
       IN /\ verb' = theVerb
          /\ subjectPhrase' = sp.phrase
          /\ grammarLocals' = [ subjectMarker |-> grammar.subjectMarker,
                                objectMarker  |-> grammar.objectMarker,
                                tenses        |-> grammar.tenses ]
          /\ randomTenseKey' = grammar.tenses[t].key
          /\ components' = comps
          /\ sentence' =
               [ surface |-> Ordered(morphoSyntax.wordOrder, comps)
                               \o << CP.period >>,
                 gloss   |-> "('The " \o sp.human \o " " \o theVerb.meaning
                               \o " (" \o grammar.tenses[t].key \o ") the "
                               \o object.meaning \o "')" ]
  /\ pc' = "returned"
  /\ UNCHANGED << events, configVars, dictionary, genVars, sentenceI, subject,
                  object >>

\* The call has returned: updateExampleSentences shows the sentence (lines
\* 636-638) and its loop goes on; the locals of the call are gone.
SentenceReturn ==
  /\ pc = "returned"
  /\ CallLocalsInit
  /\ sentenceI' = sentenceI + 1
  /\ pc' = AfterSentencePc(sentenceI + 1)
  /\ UNCHANGED << events, configVars, dictionary, genVars >>

(***************************************************************************)
(* UIManager: the handlers                                                 *)
(***************************************************************************)
\* The UI events the model follows after the page is loaded.
MaxEvents == 1

\* The sounds of a preset's inventories the model keeps (the first ones).
MaxPresetSounds == 1

\* The first n elements of a sequence.
Take(seq, n) == SubSeq(seq, 1, IF Len(seq) < n THEN Len(seq) ELSE n)

\* The presets of handlePresetClick, their texts split as updateStateFromUI
\* splits them.  Four sounds of the English preset have no name in CP.
presets ==
  [ japanese |->
      [ consonants |-> << <<CP.p>>, <<CP.t>>, <<CP.k>>, <<CP.b>>, <<CP.d>>,
                          <<CP.g>>, <<CP.m>>, <<CP.n>>, <<CP.s>>, <<CP.z>>,
                          <<CP.h>>, <<CP.r>>, <<CP.j>>, <<CP.w>> >>,
        vowels     |-> << <<CP.a>>, <<CP.i>>, <<CP.u>>, <<CP.e>>, <<CP.o>> >>,
        structure  |-> << <<CP.C, CP.V>>, <<CP.V>>, <<CP.C, CP.V, CP.N>> >> ],
    english |->
      [ consonants |-> << <<CP.p>>, <<CP.t>>, <<CP.k>>, <<CP.b>>, <<CP.d>>,
                          <<CP.g>>, <<CP.m>>, <<CP.n>>, <<CP.l>>, <<CP.r>>,
                          <<CP.s>>, <<CP.z>>, <<CP.esh>>, <<658>>, <<CP.h>>,
                          <<CP.w>>, <<CP.j>>, <<CP.theta>>, <<CP.eth>>,
                          <<CP.f>>, <<CP.v>>, <<CP.tesh>>, <<CP.dezh>> >>,
        vowels     |-> << <<CP.i>>, <<618>>, <<CP.e>>, <<230>>, <<CP.u>>,
                          <<650>>, <<CP.o>>, <<596>>, <<CP.a>>, <<593>>,
                          <<601>> >>,
        structure  |-> << <<CP.C, CP.V, CP.C>>, <<CP.C, CP.C, CP.V>>,
                          <<CP.C, CP.V>>, <<CP.V>>, <<CP.V, CP.C, CP.C>> >> ],
    spanish |->
      [ consonants |-> << <<CP.p>>, <<CP.t>>, <<CP.k>>, <<CP.b>>, <<CP.d>>,
                          <<CP.g>>, <<CP.m>>, <<CP.n>>, <<CP.l>>, <<CP.r>>,
                          <<CP.s>>, <<CP.j>>, <<CP.w>>, <<CP.f>>, <<CP.x>> >>,
        vowels     |-> << <<CP.a>>, <<CP.e>>, <<CP.i>>, <<CP.o>>, <<CP.u>> >>,
        structure  |-> << <<CP.C, CP.V>>, <<CP.C, CP.V, CP.C>>,
                          <<CP.V, CP.C>> >> ] ]

\* Lexicon.generate is called (line 709): its locals are fresh and the while
\* loop of the meaning selection tests its condition.
GenerateCalled ==
  /\ GenerateLocalsInit
  /\ pc' = SelectPc(<< >>, 0, lexicon'.rootCount)

\* updateAllDisplays is called: updateExampleSentences starts its loop.
DisplaysCalled ==
  /\ sentenceI' = 0
  /\ pc' = "display"

\* Lexicon.generate has returned to handleGenerateLexicon, which calls
\* updateAllDisplays (line 710); the locals of the call are gone.
GenerateReturn ==
  /\ pc = "generated"
  /\ GenerateLocalsInit
  /\ DisplaysCalled
  /\ UNCHANGED << events, configVars, dictionary, callVars >>

\* handleGenerateLexicon: the click on the generate button.  The controls
\* have not changed since the last event, so updateStateFromUI leaves the
\* state as it is.
handleGenerateLexicon ==
  /\ pc = "idle"
  /\ events < MaxEvents
  /\ events' = events + 1
  /\ UNCHANGED << configVars, dictionary, sentVars >>
  /\ GenerateCalled

\* handleInputChange after the user changed one of the grammatical gender
\* radio buttons or the agreement checkbox: updateStateFromUI, then
\* updateAllDisplays.
handleInputChange ==
  /\ pc = "idle"
  /\ events < MaxEvents
  /\ events' = events + 1
  /\ \E ms \in { [ morphoSyntax EXCEPT !.grammaticalGender = g ]
                   : g \in { "none", "mf", "mfn" } }
            \cup { [ morphoSyntax EXCEPT
                       !.genderAgreement = ~ morphoSyntax.genderAgreement ] } :
       /\ ms # morphoSyntax
       /\ morphoSyntax' = ms
  /\ DisplaysCalled
  /\ UNCHANGED << phonology, lexicon, grammar, dictionary, genVars, callVars >>

\* handlePresetClick for one of the three preset buttons.
handlePresetClick ==
  /\ pc = "idle"
  /\ events < MaxEvents
  /\ events' = events + 1
  /\ \E preset \in DOMAIN presets :
       phonology' =
         [ phonology EXCEPT
             !.consonants = Take(presets[preset].consonants, MaxPresetSounds),
             !.vowels = Take(presets[preset].vowels, MaxPresetSounds),
             !.syllableStructures = presets[preset].structure ]
  /\ DisplaysCalled
  /\ UNCHANGED << lexicon, morphoSyntax, grammar, dictionary, genVars,
                  callVars >>

\* exportJSON and exportCSV read the state and download a text.
export ==
  /\ pc = "idle"
  /\ events < MaxEvents
  /\ events' = events + 1
  /\ UNCHANGED << configVars, dictionary, pc, genVars, sentVars >>

(***************************************************************************)
(* The configurations                                                      *)
(***************************************************************************)
Phonology(consonants, vowels, structures, rules, tonesEnabled, tonesCount) ==
  [ consonants |-> consonants, vowels |-> vowels,
    syllableStructures |-> structures, phonologicalRules |-> rules,
    tones |-> [ enabled |-> tonesEnabled, count |-> tonesCount ] ]

LexiconConfig(fields, rootCount, loanwordsEnabled) ==
  [ semanticFields |-> fields, rootCount |-> rootCount,
    loanwords |-> [ enabled |-> loanwordsEnabled ] ]

MorphoSyntaxConfig(order, adjOrder, marking, rate, morphemes, gg, agree) ==
  [ wordOrder |-> order, adjectiveOrder |-> adjOrder,
    caseMarking |-> marking, irregularityRate |-> rate,
    derivationalMorphemes |-> morphemes,
    grammaticalGender |-> gg,
    genderAgreement |-> agree ]

\* Two morphemes a user can enter: a suffix that makes nouns and a prefix
\* that makes verbs.
NounSuffix == [ type |-> "suffix", form |-> << CP.a >>, func |-> "noun" ]
VerbPrefix == [ type |-> "prefix", form |-> << CP.p >>, func |-> "verb" ]

CV == << CP.C, CP.V >>

\* A state with a configuration and a dictionary in which a handler stands
\* at a call, no call being under way.
StateAt(ph, lx, ms, dict, at) ==
  /\ phonology = ph
  /\ lexicon = lx
  /\ morphoSyntax = ms
  /\ grammar = InitialGrammar
  /\ dictionary = dict
  /\ pc = at
  /\ meaningsToGenerate = << >>
  /\ usedMeanings = { }
  /\ fieldIndex = 0
  /\ meaningIdx = 0
  /\ attempts = 0
  /\ ipa = Unset
  /\ roman = Unset
  /\ generatedRomans = { }
  /\ newDictionary = << >>
  /\ structure = Unset
  /\ word = Unset
  /\ derivedWords = << >>
  /\ morphemeIdx = 0
  /\ wordIdx = 0
  /\ loanI = 0
  /\ sentenceI = 0
  /\ subject = Unset
  /\ object = Unset
  /\ verb = Unset
  /\ subjectPhrase = Unset
  /\ grammarLocals = Unset
  /\ randomTenseKey = Unset
  /\ components = Unset
  /\ sentence = Unset
  /\ events = 0

\* A state in which Lexicon.generate is called for a configuration; such is
\* the state as the page is loaded: init has run updateStateFromUI and calls
\* handleGenerateLexicon.
StartOfGenerate(ph, lx, ms) ==
  StateAt(ph, lx, ms, << >>, SelectPc(<< >>, 0, lx.rootCount))

\* The pages the model loads: one consonant and one vowel, one root, the two
\* morphemes, with and without grammatical gender and loanwords.
Init ==
  \E gg \in { "mf" }, loan \in BOOLEAN :
    StartOfGenerate(
      Phonology(<< <<CP.p>> >>, << <<CP.a>> >>, << CV >>, << >>, FALSE, 3),
      LexiconConfig(<< "shizen" >>, 1, loan),
      MorphoSyntaxConfig(<< "S", "O", "V" >>, "AN", "suffix", 5,
                         << NounSuffix, VerbPrefix >>, gg, TRUE))

\* The steps of Lexicon.generate.
GenerateNext ==
  \/ SelectMeaning
  \/ SynthStart
  \/ Attempt
  \/ Insert
  \/ DeriveStep
  \/ Assemble
  \/ LoanStep

\* The steps of updateExampleSentences.
SentenceNext ==
  \/ SentenceGuard
  \/ Redraw
  \/ Compose
  \/ SentenceReturn

Next ==
  \/ GenerateNext
  \/ SentenceNext
  \/ GenerateReturn
  \/ handleGenerateLexicon
  \/ handleInputChange
  \/ handlePresetClick
  \/ export

Spec == Init /\ [][Next]_vars

(***************************************************************************)
(* Lexicon.generate over a range of configurations                         *)
(***************************************************************************)
\* The largest rootCount of the configurations that vary it.
MaxRootCount == 3

\* A control left empty: updateStateFromUI reads it as the one-element list
\* of the empty text ("".split(...) is [""]).
EmptyText == << << >> >>

\* Rules a user can enter, as texts: n > m before p; p > t between vowels; a
\* > e anywhere; and two rules whose pattern does not compile.
RuleNM == [ from |-> << CP.n, CP.space, CP.gt, CP.space, CP.m >>,
            to   |-> << CP.underscore, CP.p >> ]
RulePT == [ from |-> << CP.p, CP.gt, CP.t >>,
            to   |-> << CP.V, CP.underscore, CP.V >> ]
RuleAE == [ from |-> << CP.a, CP.gt, CP.e >>, to |-> << CP.x >> ]
RuleBadMatch == [ from |-> << CP.lparen, CP.gt, CP.m >>,
                  to   |-> << CP.underscore, CP.p >> ]
RuleBadContext == [ from |-> << CP.n, CP.gt, CP.p >>,
                    to   |-> << CP.lparen, CP.underscore >> ]

RuleLists ==
  { << RuleNM >>, << RuleBadMatch >>, << RuleBadMatch, RuleNM >>,
    << RuleNM, RuleBadContext, RulePT >>, << RuleAE, RuleNM >>,
    << RulePT, RuleAE >> }

FieldLists ==
  { << "shizen" >>, << "shizen", "doubutsu" >>, << "x" >>, << "x", "y" >>,
    << "x", "x", "x", "shizen" >>,
    << "x", "x", "x", "x", "x", "x", "shizen" >>, << "" >> }

DefaultMorphoSyntax ==
  MorphoSyntaxConfig(<< "S", "O", "V" >>, "AN", "suffix", 5, << >>, "none",
                     FALSE)

\* The configurations Lexicon.generate is followed for, as triples
\* <<phonology, lexicon, morphoSyntax>>.
PhonologyConfigs ==
  { << Phonology(c, v, st, << >>, t, 2),
       LexiconConfig(<< "shizen" >>, 2, FALSE),
       DefaultMorphoSyntax >>
    : c  \in { EmptyText, << <<CP.p>> >>, << <<CP.p>>, <<CP.t>> >> },
      v  \in { EmptyText, << <<CP.a>> >>, << <<CP.a>>, <<CP.i>> >> },
      st \in { EmptyText, << CV >>, presets.japanese.structure },
      t  \in BOOLEAN }

RuleConfigs ==
  { << Phonology(<< <<CP.p>>, <<CP.n>> >>, << <<CP.a>> >>,
                 << << CP.V, CP.C, CP.C, CP.V >> >>, rules, FALSE, 2),
       LexiconConfig(<< "x", "y" >>, 2, FALSE),
       DefaultMorphoSyntax >>
    : rules \in RuleLists }

SelectionConfigs ==
  { << Phonology(<< <<CP.p>> >>, << <<CP.a>> >>, << CV >>, << >>, FALSE, 2),
       LexiconConfig(fields, n, FALSE),
       DefaultMorphoSyntax >>
    : fields \in FieldLists, n \in 0..MaxRootCount }

DerivationConfigs ==
  { << Phonology(<< <<CP.p>>, <<CP.t>> >>, << <<CP.a>> >>, << CV >>, << >>,
                 FALSE, 2),
       LexiconConfig(<< "x", "y" >>, 2, loan),
       MorphoSyntaxConfig(<< "S", "O", "V" >>, "AN", "suffix", rate,
                          morphemes, gg, FALSE) >>
    : loan \in BOOLEAN, rate \in { 0, 5, 100 },
      morphemes \in { << NounSuffix >>, << NounSuffix, VerbPrefix >> },
      gg \in { "none", "mf" } }

\* A rootCount of 40 gives two loanwords.
LoanConfigs ==
  { << Phonology(<< <<CP.p>>, <<CP.t>> >>, << <<CP.a>> >>, << CV >>, << >>,
                 FALSE, 2),
       LexiconConfig(<< "x", "y" >>, 40, TRUE),
       MorphoSyntaxConfig(<< "S", "O", "V" >>, "AN", "suffix", 5,
                          << NounSuffix, VerbPrefix >>, "none", FALSE) >> }

\* Two vowels give irregular forms that differ from their base.
IrregularConfigs ==
  { << Phonology(<< <<CP.p>> >>, << <<CP.a>>, <<CP.i>> >>, << CV >>, << >>,
                 FALSE, 2),
       LexiconConfig(<< "shizen" >>, 1, FALSE),
       MorphoSyntaxConfig(<< "S", "O", "V" >>, "AN", "suffix", rate,
                          << NounSuffix, VerbPrefix >>, "mfn", FALSE) >>
    : rate \in { 5, 100 } }

\* A rule with two "V" in its context: p > t after two vowels.
RulePTAfterTwoVowels == [ from |-> << CP.p, CP.gt, CP.t >>,
                          to   |-> << CP.V, CP.V, CP.underscore >> ]

\* One rule with a context, for words of two vowels, a consonant and a vowel.
ContextConfigs ==
  { << Phonology(<< <<CP.p>> >>, << <<CP.a>>, <<CP.i>> >>,
                 << << CP.V, CP.V, CP.C, CP.V >> >>, << rule >>, FALSE, 2),
       LexiconConfig(<< "x" >>, 1, FALSE),
       DefaultMorphoSyntax >>
    : rule \in { RulePT, RulePTAfterTwoVowels } }

GenConfigs ==
  PhonologyConfigs \cup RuleConfigs \cup SelectionConfigs
    \cup DerivationConfigs \cup LoanConfigs \cup IrregularConfigs
    \cup ContextConfigs

GenInit == \E cfg \in GenConfigs : StartOfGenerate(cfg[1], cfg[2], cfg[3])

\* Lexicon.generate alone, from its call to its return.
GenSpec == GenInit /\ [][GenerateNext]_vars

(***************************************************************************)
(* generateSentence over a range of dictionaries and configurations        *)
(***************************************************************************)
\* Entries as Lexicon.generate makes them: base words, an irregular form of
\* the first (with its roman and gender), a regular noun derived from it
\* (without gender).
EntrySun  == [ ipa |-> Slashed(<< CP.p, CP.a >>), roman |-> << CP.p, CP.a >>,
               pos |-> "noun", meaning |-> "sun", gender |-> "masculine" ]
EntryMoon == [ ipa |-> Slashed(<< CP.t, CP.a >>), roman |-> << CP.t, CP.a >>,
               pos |-> "noun", meaning |-> "moon", gender |-> "feminine" ]
EntryGo   == [ ipa |-> Slashed(<< CP.k, CP.a >>), roman |-> << CP.k, CP.a >>,
               pos |-> "verb", meaning |-> "go", gender |-> "null" ]
EntryGood == [ ipa |-> Slashed(<< CP.t, CP.i >>), roman |-> << CP.t, CP.i >>,
               pos |-> "adjective", meaning |-> "good", gender |-> "null" ]
EntrySunIrregular ==
  [ ipa |-> Slashed(<< CP.p, CP.a >>), roman |-> << CP.p, CP.a >>,
    pos |-> "noun", meaning |-> "sun (irregular noun)",
    gender |-> "masculine" ]
EntrySunDerived == applyDerivation(EntrySun, NounSuffix)

EntryPool ==
  << EntrySun, EntryMoon, EntryGo, EntryGood, EntrySunIrregular,
     EntrySunDerived >>

RECURSIVE SubSequences(_)
\* The sequences obtained from seq by leaving elements out.
SubSequences(seq) ==
  IF seq = << >> THEN { << >> }
  ELSE LET rest == SubSequences(Tail(seq))
       IN rest \cup { << Head(seq) >> \o r : r \in rest }

\* The six values of the word order control.
WordOrders ==
  { << "S", "O", "V" >>, << "S", "V", "O" >>, << "O", "S", "V" >>,
    << "O", "V", "S" >>, << "V", "S", "O" >>, << "V", "O", "S" >> }

CaseMarkings == { "suffix", "prefix", "postposition" }

\* updateExampleSentences is called for a dictionary and a configuration.
SentenceInit ==
  \E dict \in SubSequences(EntryPool), wo \in WordOrders,
     cm \in CaseMarkings, ao \in { "AN", "NA" }, gg \in { "none", "mf" } :
    StateAt(Phonology(<< <<CP.p>>, <<CP.t>>, <<CP.k>> >>,
                      << <<CP.a>>, <<CP.i>> >>, << CV >>, << >>, FALSE, 2),
            LexiconConfig(<< "shizen" >>, 4, FALSE),
            MorphoSyntaxConfig(wo, ao, cm, 5, << NounSuffix >>, gg, TRUE),
            dict, "display")

\* updateExampleSentences alone, from its call to its return.
SentenceSpec == SentenceInit /\ [][SentenceNext]_vars

(***************************************************************************)
(* The claims                                                              *)
(***************************************************************************)
\* The positions of a dictionary that hold a word of a part of speech.
PositionsOf(dict, partOfSpeech) ==
  { q \in DOMAIN dict : dict[q].pos = partOfSpeech }

\* No two entries of a dictionary have the same roman.
RomansUnique(dict) ==
  \A q, r \in DOMAIN dict : q # r => dict[q].roman # dict[r].roman

\* C1: when Lexicon.generate has finished, no two entries of the dictionary
\* (base, derived and loanword entries together) have the same roman.
C1_NoTwoEntriesShareRoman ==
  pc = "generated" => RomansUnique(dictionary)

\* A configured field still offers a meaning that is not used.
SomeFieldOffers ==
  \E q \in DOMAIN lexicon.semanticFields :
    LET fieldName == lexicon.semanticFields[q]
    IN IF fieldName \in DOMAIN semanticFieldMap
         THEN \E w \in Range(SemanticDictionary(semanticFieldMap[fieldName])) :
                w \notin usedMeanings
         ELSE fieldName \notin usedMeanings

\* C10: the meaning-selection loop does not stop with fewer than rootCount
\* meanings while the walk over the configured fields can still add an unused
\* meaning: when the loop has ended short of rootCount, no configured field
\* offers an unused meaning.
C10_StopsShortOnlyWhenStarved ==
  (pc = "synth" /\ Len(meaningsToGenerate) < lexicon.rootCount)
    => ~ SomeFieldOffers

\* Every sound of the inventories is one character, and there is at least
\* one consonant, one vowel and one structure.
PlainInventories ==
  /\ Len(phonology.consonants) > 0
  /\ Len(phonology.vowels) > 0
  /\ Len(phonology.syllableStructures) > 0
  /\ \A q \in DOMAIN phonology.consonants : Len(phonology.consonants[q]) = 1
  /\ \A q \in DOMAIN phonology.vowels : Len(phonology.vowels[q]) = 1

\* C5: with non-empty inventories and a non-empty set of structures, the
\* word generateWord synthesizes, before the rules and the tone marker, has
\* as many characters as the structure that was chosen.
C5_WordHasTemplateLength ==
  (PlainInventories /\ word # Unset /\ word # Null)
    => Len(word) = Len(structure)

\* The dictionary holds fewer than two nouns or no verb.
TooFewWords(dict) ==
  Cardinality(PositionsOf(dict, "noun")) < 2 \/ PositionsOf(dict, "verb") = { }

\* C2: for a dictionary with at least two nouns and one verb the loop that
\* redraws the object ends under fair random draws, so generateSentence
\* returns: in every state of that loop some noun of the dictionary has a
\* roman that differs from the subject's, which is the draw that ends it.
C2_RedrawLoopCanEnd ==
  (pc = "redraw" /\ ~ TooFewWords(dictionary))
    => \E q \in PositionsOf(dictionary, "noun") :
         dictionary[q].roman # subject.roman

\* C3: for a dictionary with fewer than two nouns or no verb, the call
\* returns the sentinel without drawing a word and without reading the
\* grammar: it never reaches the redraw loop, and what it returns is the
\* sentinel, the grammar's markers not having been read.
C3_SentinelBeforeGrammar ==
  TooFewWords(dictionary)
    => /\ pc \in { "display", "returned", "idle" }
       /\ pc = "returned"
            => /\ sentence = Sentinel
               /\ grammarLocals = Unset
               /\ subject = Unset
               /\ object = Unset

\* A call has returned the sentinel for a dictionary with one noun and one
\* verb.
C3_Witness ==
  /\ pc = "returned"
  /\ sentence = Sentinel
  /\ Cardinality(PositionsOf(dictionary, "noun")) = 1
  /\ PositionsOf(dictionary, "verb") # { }

\* The meanings the configured fields offer together.
OfferedMeanings ==
  UNION { FieldOffers(lexicon.semanticFields[q], { })
          : q \in DOMAIN lexicon.semanticFields }

\* rootCount is at least 1 and the fields offer at least rootCount meanings.
EnoughMeanings ==
  /\ lexicon.rootCount >= 1
  /\ Cardinality(OfferedMeanings) >= lexicon.rootCount

\* generateWord cannot return null or the empty string.
WordsNeverEmpty == \A out \in generateWord(phonology) : ~ Falsy(out.finalWord)

\* C4 as stated: with rootCount = N >= 1 and fields that offer at least N
\* meanings, the result holds between 1 and N base entries.
C4_BaseEntriesBetweenOneAndN ==
  (pc = "generated" /\ EnoughMeanings)
    => /\ Len(newDictionary) >= 1
       /\ Len(newDictionary) <= lexicon.rootCount

\* C4 amended: with rootCount = N >= 1 and fields that offer at least N
\* meanings, the result holds at most N base entries, and at least 1 when
\* generateWord cannot return null or the empty string.
C4_BaseEntriesAtMostN ==
  (pc = "generated" /\ EnoughMeanings)
    => /\ Len(newDictionary) <= lexicon.rootCount
       /\ WordsNeverEmpty => Len(newDictionary) >= 1

\* A generation for two meanings has ended with one base entry, the other
\* meaning having been dropped for its roman.
C4_Witness ==
  /\ pc = "generated"
  /\ EnoughMeanings
  /\ WordsNeverEmpty
  /\ lexicon.rootCount >= 2
  /\ Len(meaningsToGenerate) = lexicon.rootCount
  /\ Len(newDictionary) = 1

\* The text s begins with the text t.
StartsWith(s, t) == Len(t) <= Len(s) /\ SubSeq(s, 1, Len(t)) = t

\* The text s ends with the text t.
EndsWith(s, t) ==
  Len(t) <= Len(s) /\ SubSeq(s, Len(s) - Len(t) + 1, Len(s)) = t

\* The marker the grammar has for a tense.
TenseMarkerOf(key) ==
  (CHOOSE t \in Range(grammar.tenses) : t.key = key).marker

\* A form with the marker the case marking puts on it.
WithMarker(form, marker) ==
  CASE morphoSyntax.caseMarking = "suffix" -> form \o << 45 >> \o marker
    [] morphoSyntax.caseMarking = "prefix" -> marker \o << 45 >> \o form
    [] morphoSyntax.caseMarking = "postposition" ->
         form \o << 32 >> \o marker

\* The constituent of the sentence for a letter of the word order: the
\* subject phrase with -ga, the object with -wo, the verb with its tense.
Constituent(letter) ==
  CASE letter = "S" -> WithMarker(subjectPhrase, << 103, 97 >>)
    [] letter = "O" -> WithMarker(object.roman, << 119, 111 >>)
    [] letter = "V" -> verb.roman \o << 45 >> \o TenseMarkerOf(randomTenseKey)

\* C6: the surface part of a sentence is its three constituents in the
\* order of wordOrder, joined by single spaces and followed by a period; the
\* subject phrase holds the subject's roman, alone or with an adjective form
\* before or after it; for SOV with suffix marking the surface reads
\* "<subject phrase>-ga <object>-wo <verb>-<tense marker>.".
C6_SurfaceFollowsWordOrder ==
  (pc = "returned" /\ sentence # Sentinel)
    => LET wo == morphoSyntax.wordOrder
       IN /\ sentence.surface =
               Constituent(wo[1]) \o << 32 >> \o Constituent(wo[2])
                 \o << 32 >> \o Constituent(wo[3]) \o << 46 >>
          /\ \/ subjectPhrase = subject.roman
             \/ \E q \in PositionsOf(dictionary, "adjective") :
                  \/ /\ StartsWith(subjectPhrase, dictionary[q].roman)
                     /\ EndsWith(subjectPhrase, << 32 >> \o subject.roman)
                  \/ /\ StartsWith(subjectPhrase,
                                   subject.roman \o << 32 >>
                                     \o dictionary[q].roman)
          /\ (wo = << "S", "O", "V" >> /\ morphoSyntax.caseMarking = "suffix")
               => sentence.surface =
                    subjectPhrase \o << 45, 103, 97, 32 >> \o object.roman
                      \o << 45, 119, 111, 32 >> \o verb.roman \o << 45 >>
                      \o TenseMarkerOf(randomTenseKey) \o << 46 >>

\* A sentence with an adjective in its subject phrase has been returned for
\* the order OVS and prefix marking.
C6_Witness ==
  /\ pc = "returned"
  /\ sentence # Sentinel
  /\ morphoSyntax.wordOrder = << "O", "V", "S" >>
  /\ morphoSyntax.caseMarking = "prefix"
  /\ subjectPhrase # subject.roman

\* The regular expression of a rule compiles.
Compiles(rule) ==
  LET parts == Split(rule.from, CP.gt)
  IN CP.lparen \notin Chars(Trim(parts[1])) \cup Chars(rule.to)

\* C7: no rule makes applyPhonologicalRules abort: Lexicon.generate is never
\* left by an exception, and the word generateWord returns is the synthesized
\* word with the rules that compile applied in their order, the others
\* being skipped.
C7_BadRuleIsSkipped ==
  /\ pc # "aborted"
  /\ (pc \in { "attempt", "insert" } /\ ipa # Unset /\ ~ Falsy(ipa))
       => LET ruled == IF phonology.tones.enabled
                         THEN SubSeq(ipa, 1, Len(ipa) - 1) ELSE ipa
          IN ruled = applyPhonologicalRules(
                       word, SelectSeq(phonology.phonologicalRules, Compiles),
                       phonology.vowels).word

\* generateWord has returned "ampa" for the word "anpa": the rule after the
\* rule that does not compile has been applied.
C7_Witness ==
  /\ pc = "insert"
  /\ phonology.phonologicalRules = << RuleBadMatch, RuleNM >>
  /\ word = << CP.a, CP.n, CP.p, CP.a >>
  /\ ipa = << CP.a, CP.m, CP.p, CP.a >>

\* A step of a generateSentence call leaves the dictionary, the grammar and
\* the configuration as they are.
SentenceStepLeavesStateAlone ==
  pc \in { "display", "redraw" }
    => UNCHANGED << dictionary, grammar, phonology, lexicon, morphoSyntax >>

\* C8: no step of a generateSentence call changes the dictionary, the
\* grammar or the configuration.
C8_SentenceLeavesStateAlone == [][SentenceStepLeavesStateAlone]_vars

\* A sentence with an adjective has been returned after the object was
\* drawn again, for a dictionary of six entries.
C8_Witness ==
  /\ pc = "returned"
  /\ sentence # Sentinel
  /\ dictionary = EntryPool
  /\ subjectPhrase # subject.roman
  /\ sentenceI >= 1

\* The place of a base entry's meaning in meaningsToGenerate.
MeaningIndex(meaning) ==
  CHOOSE k \in DOMAIN meaningsToGenerate : meaningsToGenerate[k] = meaning

\* The morpheme and the base word a derived entry was made from, as the
\* number of the visit that made it (morphemes outermost).
VisitOf(entry) ==
  LET morphemes == morphoSyntax.derivationalMorphemes
      m == CHOOSE k \in DOMAIN morphemes : morphemes[k].func = entry.pos
      b == CHOOSE k \in DOMAIN newDictionary :
             entry.meaning \in
               { newDictionary[k].meaning \o " (" \o entry.pos \o ")",
                 newDictionary[k].meaning \o " (irregular " \o entry.pos
                   \o ")" }
  IN (m - 1) * Len(newDictionary) + b

\* An entry is a loanword entry.
IsLoanword(entry) ==
  \E q \in DOMAIN sourceLoanwordsAll :
    entry.meaning = sourceLoanwordsAll[q].text \o " (loanword)"

\* The sequence s is the beginning of the sequence t.
IsPrefix(s, t) == Len(s) <= Len(t) /\ SubSeq(t, 1, Len(s)) = s

\* The order of the entries: base entries as their meanings were selected,
\* derived entries by morpheme and then by base word, and in the dictionary
\* the base entries, then the derived entries, then the loanwords.
OrderedResult ==
  /\ \A q, r \in DOMAIN newDictionary :
       q < r => MeaningIndex(newDictionary[q].meaning)
                  < MeaningIndex(newDictionary[r].meaning)
  /\ \A q, r \in DOMAIN derivedWords :
       q < r => VisitOf(derivedWords[q]) < VisitOf(derivedWords[r])
  /\ pc \in { "loan", "generated" }
       => /\ IsPrefix(newDictionary \o derivedWords, dictionary)
          /\ \A q \in DOMAIN dictionary :
               q > Len(newDictionary) + Len(derivedWords)
                 => IsLoanword(dictionary[q])

\* A step adds entries at the end, if it adds any, and changes none.
AppendOnly ==
  /\ IsPrefix(newDictionary, newDictionary')
  /\ IsPrefix(derivedWords, derivedWords')
  /\ pc = "loan" => IsPrefix(dictionary, dictionary')

\* C9: the dictionary holds the base entries in the order their meanings
\* were selected, then the derived entries by morpheme (outermost) and by
\* base word, then the loanwords in the order they were made; no entry is
\* changed once it has been put in.
C9_BaseThenDerivedThenLoan == []OrderedResult /\ [][AppendOnly]_vars

\* A generation has ended with two base entries, derived entries of two
\* morphemes and two loanwords.
C9_Witness ==
  /\ pc = "generated"
  /\ Len(newDictionary) = 2
  /\ Len(derivedWords) >= 3
  /\ derivedWords[1].pos # derivedWords[Len(derivedWords)].pos
  /\ Len(dictionary) = Len(newDictionary) + Len(derivedWords) + 2

\* While a meaning is being tried: at most 10 attempts have been made, every
\* attempt before the last collided, and a word that is held although its
\* roman is used is the word of the tenth attempt.
AttemptsBounded ==
  /\ attempts <= 10
  /\ (pc = "attempt" /\ attempts > 0) => roman \in generatedRomans
  /\ (pc = "insert" /\ ~ Falsy(ipa) /\ roman \in generatedRomans)
       => attempts = 10

\* The step that ends the attempts for a meaning: the meaning gets an entry
\* with the last attempt's roman, which joins the used romans, when that
\* attempt gave a word with an unused roman; otherwise the entries and the
\* used romans stay as they are.
InsertOrDrop ==
  pc = "insert"
    => IF ~ Falsy(ipa) /\ roman \notin generatedRomans
         THEN /\ Len(newDictionary') = Len(newDictionary) + 1
              /\ IsPrefix(newDictionary, newDictionary')
              /\ newDictionary'[Len(newDictionary')].roman = roman
              /\ newDictionary'[Len(newDictionary')].ipa
                   = << 47 >> \o ipa \o << 47 >>
              /\ newDictionary'[Len(newDictionary')].meaning
                   = meaningsToGenerate[meaningIdx]
              /\ generatedRomans' = generatedRomans \cup { roman }
         ELSE /\ newDictionary' = newDictionary
              /\ generatedRomans' = generatedRomans

\* C11: for each meaning Lexicon.generate makes at most 10 attempts; the
\* meaning gets a base entry with the first attempt whose roman is not yet
\* used, and it is dropped, with no entry and no change of the used romans,
\* exactly when synthesis gives no word or all 10 attempts collide.
C11_AtMostTenAttempts == []AttemptsBounded /\ [][InsertOrDrop]_vars

\* A meaning is about to be dropped after ten attempts that all collided
\* with the roman of an entry made before.
C11_Witness ==
  /\ pc = "insert"
  /\ attempts = 10
  /\ ~ Falsy(ipa)
  /\ roman \in generatedRomans
  /\ Len(newDictionary) >= 1

\* The agreement suffix of a gender.
SuffixOfGender(gender) ==
  CASE gender = "masculine" -> << 45, 111 >>
    [] gender = "feminine" -> << 45, 97 >>
    [] gender = "neuter" -> << 45, 101 >>

\* An entry has one of the three genders.
IsGendered(entry) ==
  /\ "gender" \in DOMAIN entry
  /\ entry.gender \in { "masculine", "feminine", "neuter" }

\* C12: when a sentence has an adjective, genderAgreement is on and the
\* subject drawn has a gender, the adjective form in the subject phrase
\* carries the suffix of that gender, whatever the current configuration is.
C12_AdjectiveAgreesWithSubject ==
  ( /\ pc = "returned"
    /\ sentence # Sentinel
    /\ subjectPhrase # subject.roman
    /\ morphoSyntax.genderAgreement
    /\ IsGendered(subject) )
    => \E q \in PositionsOf(dictionary, "adjective") :
         LET form == dictionary[q].roman \o SuffixOfGender(subject.gender)
         IN subjectPhrase \in { form \o << 32 >> \o subject.roman,
                                subject.roman \o << 32 >> \o form }

\* The code points of the superscript numerals 1 to 9, the tone glyphs of
\* the romanization table.
SuperscriptNumerals ==
  << 185, 178, 179, 8308, 8309, 8310, 8311, 8312, 8313 >>

\* C13: with tones enabled and a count in 1..9, the word generateWord
\* returns is the word after the rules followed by exactly one marker, and
\* the marker is the superscript numeral of a tone index k in 1..count.
C13_ToneMarkerIsSuperscriptNumeral ==
  ( /\ pc \in { "attempt", "insert" }
    /\ phonology.tones.enabled
    /\ phonology.tones.count \in 1..9
    /\ ipa # Unset
    /\ ipa # Null )
    => /\ Len(ipa) >= 1
       /\ SubSeq(ipa, 1, Len(ipa) - 1)
            = applyPhonologicalRules(word, phonology.phonologicalRules,
                                     phonology.vowels).word
       /\ \E k \in 1..phonology.tones.count :
            ipa[Len(ipa)] = SuperscriptNumerals[k]

\* The pattern of a context part in which every "V" stands for any vowel of
\* the inventory and every other character for itself.
EveryV(s, vowels) ==
  [ x \in DOMAIN s |->
      IF s[x] = 86 THEN { vowels[q][1] : q \in DOMAIN vowels } ELSE { s[x] } ]

\* A word with every occurrence of the rule's pattern that stands between
\* the before part and the after part of the rule's context rewritten.
RewrittenInContext(w, rule, vowels) ==
  LET parts  == Split(rule.from, 62)
      ctx    == Split(rule.to, 95)
  IN ReplaceFrom(w, 1, EveryV(ctx[1], vowels), Literal(Trim(parts[1])),
                 EveryV(ctx[2], vowels), Trim(parts[2]))

\* C14: a rule whose context holds "_" rewrites exactly the occurrences of
\* its pattern that are preceded by the before part and followed by the
\* after part, every "V" of these parts standing for any vowel of the
\* inventory.
C14_ContextRuleRewritesInContext ==
  ( /\ pc \in { "attempt", "insert" }
    /\ ipa # Unset
    /\ ~ Falsy(ipa)
    /\ ~ phonology.tones.enabled
    /\ Len(phonology.phonologicalRules) = 1
    /\ 95 \in Chars(phonology.phonologicalRules[1].to)
    /\ Compiles(phonology.phonologicalRules[1]) )
    => ipa = RewrittenInContext(word, phonology.phonologicalRules[1],
                                phonology.vowels)

\* The last position of an IPA text that holds a vowel of the inventory; 0
\* when there is none.
LastVowelPosition(text, vowels) ==
  LET at == { x \in DOMAIN text : \E q \in DOMAIN vowels : vowels[q] = << text[x] >> }
  IN IF at = { } THEN 0 ELSE CHOOSE x \in at : \A y \in at : y <= x

\* A derived entry is a regular form of a base entry for a morpheme.
IsRegularOf(entry, base, morpheme) ==
  /\ entry.pos = morpheme.func
  /\ entry.meaning = base.meaning \o " (" \o morpheme.func \o ")"
  /\ "gender" \notin DOMAIN entry

\* A derived entry is an irregular form of a base entry for a morpheme.
IsIrregularOf(entry, base, morpheme) ==
  /\ entry.meaning = base.meaning \o " (irregular " \o morpheme.func \o ")"
  /\ "gender" \in DOMAIN entry
  /\ entry.gender = base.gender
  /\ Len(entry.ipa) = Len(base.ipa)
  /\ \A x \in DOMAIN base.ipa :
       entry.ipa[x] # base.ipa[x]
         => x = LastVowelPosition(base.ipa, phonology.vowels)

\* C15: every derived entry of the regular path has the morpheme's func as
\* its part of speech, the meaning "<base meaning> (<func>)" and no gender;
\* every derived entry of the irregular path has the gender of its base
\* entry and an IPA that differs from the base's at most at the last vowel.
C15_DerivedEntryFields ==
  \A d \in DOMAIN derivedWords :
    \E b \in DOMAIN newDictionary :
      \E m \in DOMAIN morphoSyntax.derivationalMorphemes :
        \/ IsRegularOf(derivedWords[d], newDictionary[b],
                       morphoSyntax.derivationalMorphemes[m])
        \/ IsIrregularOf(derivedWords[d], newDictionary[b],
                         morphoSyntax.derivationalMorphemes[m])

\* A generation has ended with a regular form and an irregular form of a
\* feminine noun, the irregular form with another vowel than its base.
C15_Witness ==
  /\ pc = "generated"
  /\ Len(newDictionary) = 1
  /\ newDictionary[1].gender = "feminine"
  /\ \E d, e \in DOMAIN derivedWords :
       /\ "gender" \notin DOMAIN derivedWords[d]
       /\ "gender" \in DOMAIN derivedWords[e]
       /\ derivedWords[e].gender = "feminine"
       /\ derivedWords[e].ipa # newDictionary[1].ipa

\* A step changes the dictionary only inside Lexicon.generate: a call starts
\* with no entries of its own, puts its base and derived entries in the place
\* of the dictionary, and then only appends loanwords.
DictionaryStep ==
  /\ dictionary' # dictionary => pc \in { "assemble", "loan" }
  /\ (pc = "idle" /\ pc' \notin { "idle", "display" })
       => newDictionary' = << >> /\ derivedWords' = << >>
  /\ pc = "assemble" => dictionary' = newDictionary \o derivedWords
  /\ pc = "loan"
       => \/ dictionary' = dictionary
          \/ /\ Len(dictionary') = Len(dictionary) + 1
             /\ IsPrefix(dictionary, dictionary')
             /\ IsLoanword(dictionary'[Len(dictionary')])

\* C16: over any sequence of UI events the dictionary changes only during a
\* generation call, and after the call it holds only entries the call made:
\* no entry of the dictionary before is kept or merged.
C16_DictionaryReplacedByGeneration == [][DictionaryStep]_vars

\* A generation asked for by the generate button has ended, after the
\* generation of the page's start had left a dictionary.
C16_Witness ==
  /\ events = 1
  /\ pc = "generated"
  /\ Len(dictionary) >= 2

=============================================================================
